---- MODULE Spec2Model ----
(***************************************************************************)
(* Model of the video pipeline of web-app/backend: the project registry    *)
(* (services/database.py), the Celery stage tasks (tasks.py), the worker   *)
(* pool and broker configured in celery_app.py, and the controller         *)
(* handlers that submit, stop, reboot, publish and cut (main.py,           *)
(* routers/projects.py).  One project is modelled.                         *)
(*                                                                         *)
(* Controller handlers are `async def` bodies without suspension points,   *)
(* so one handler runs at a time (variable ctl); the worker processes run  *)
(* concurrently with it.  A handler is split into steps exactly where a    *)
(* worker step in between can be observed: between handing work to the     *)
(* broker and the registry write that follows it.                          *)
(***************************************************************************)
EXTENDS Integers, Sequences, FiniteSets, TLC

VARIABLES
    status,          \* registry: project["status"]
    current_step,    \* registry: project["current_step"] (NONE = null)
    progress,        \* registry: project["progress"]
    error,           \* registry: project["error"], abstracted to the stage that wrote it
    celery_task_id,  \* registry: project["celery_task_id"] (NoTask = null)
    files,           \* names present in output/<folder_name>
    schedule,        \* content of schedule.json
    last_completed,  \* highest stage that succeeded since creation or reboot
    steps,           \* the record's steps mapping: status of each entry
    chains,          \* one record per broker submission, indexed by submission number
    queue,           \* broker queue 'celery' (FIFO) of task ids
    running,         \* worker pool: ids of the tasks being executed
    revoked,         \* task ids the workers were told to revoke
    ctl,             \* the controller handler in flight and its position
    step2,           \* services/step2_silence.py: one run of remove_silences
    step5,           \* services/step5_shorts.py: runs of generate_shorts
    step7,           \* services/step7_integrate_broll.py: one run of integrate_broll
    step8,           \* services/step8_seo.py: one language-model request of generate_seo
    step10,          \* services/step10_schedule.py: one run of prepare_schedule
    step11,          \* services/step11_upload.py: one run of upload_to_youtube
    cut              \* routers/projects.py: the keep-segments of one cut_video request

vars == <<status, current_step, progress, error, celery_task_id, files, schedule,
          last_completed, steps, chains, queue, running, revoked, ctl,
          step2, step5, step7, step8, step10, step11, cut>>

registry == <<status, current_step, progress, error, celery_task_id>>
broker == <<chains, queue, running, revoked>>
pipeline == <<status, current_step, progress, error, celery_task_id, files, schedule,
              last_completed, steps, chains, queue, running, revoked, ctl>>
services == <<step2, step5, step7, step8, step10, step11, cut>>

----------------------------------------------------------------------------
(* Bounds *)

MaxChains == 2       \* broker submissions per behaviour
MaxTasks == 23       \* tasks handed to the broker per behaviour
MaxDuration == 24    \* longest original.mp4, in tenths of a second
MaxSilences == 2     \* silences ffmpeg reports in one detection
MaxSegments == 2     \* segments of transcription.json
MaxTime == 30        \* latest second a suggested window names
MaxFiles == 4        \* short files encoded per behaviour
MaxShorts == 4       \* .mp4 files of shorts/ when stage 10 runs
MaxClock == 6        \* latest wall-clock hour of a stage 11 run and of a scheduled item
MaxItems == 2        \* entries of schedule["uploads"] one stage 11 run goes through
MaxTokens == 4       \* tokens of one language-model response
MaxClips == 2        \* entries of broll_clips.json
MaxTimestamp == 2    \* longest nosilence.mp4 of a stage 7 run, in seconds
MaxCuts == 2         \* cuts of one cut request
MaxCutDuration == 5  \* longest screen.mp4 of a cut request, in seconds

----------------------------------------------------------------------------
(* Program constants *)

TOTAL_STEPS == 12
WorkerConcurrency == 2

NONE == -1
LAUNCH == -1                    \* stage slot of the process_partial_pipeline task
NoTask == <<0, 0>>
Stages == 0 .. (TOTAL_STEPS - 1)

files_to_keep == {"config.json", "screen.mp4", "webcam.mp4"}

files_to_delete ==
    {"original.mp4", "nosilence.mp4", "illustrated.mp4", "transcription.json",
     "transcription.txt", "seo.json", "schedule.json", "thumbnail.png",
     "broll_suggestions.json", "broll_clips.json", "shorts_suggestions.json",
     "shorts", "broll"}

\* a status gate that also lets a stopped project through
UploadStatusesWide == {"ready_to_upload", "completed", "failed", "stopped"}

UploadStatuses == {"ready_to_upload", "completed", "failed"}

Idle == [op |-> "idle", pc |-> "idle", arg |-> 0]

\* no run of remove_silences / generate_shorts is being followed
Step2Idle == [pc |-> "idle"]
Step5Idle == [pc |-> "idle"]
Step7Idle == [pc |-> "idle"]
Step8Idle == [pc |-> "idle"]
Step10Idle == [pc |-> "idle"]
Step11Idle == [pc |-> "idle"]
CutIdle == [pc |-> "idle"]

\* the loop of generate_shorts is not holding a suggestion
NoWindow == [start |-> NONE, end |-> NONE, snapped |-> <<NONE, NONE>>]

\* the steps mapping of a new record: convert .. thumbnail (stages 0..9) are
\* "pending"; there is no entry for schedule and upload
InitialSteps == [s \in Stages |-> IF s <= 9 THEN "pending" ELSE "absent"]

\* a .. b as a sequence
RECURSIVE Range(_, _)
Range(a, b) == IF a > b THEN <<>> ELSE <<a>> \o Range(a + 1, b)

Last(s) == s[Len(s)]

----------------------------------------------------------------------------
(* tasks.py: registry writes of the stage tasks *)

\* a percentage computed over thirteen steps
ProgressOfThirteen(step) == (step * 100) \div (TOTAL_STEPS + 1)

\* int((step / TOTAL_STEPS) * 100)
ProgressOf(step) == (step * 100) \div TOTAL_STEPS

\* update_project_status(video_folder, step, status, error)
UpdateProjectStatus(step, st, err) ==
    /\ status' = st
    /\ current_step' = step
    /\ progress' = IF st = "completed" THEN 100 ELSE ProgressOf(step)
    /\ error' = IF err THEN step ELSE error

\* the status each task's except-branch passes to update_project_status
FailureStatus(s) == IF s = 0 THEN "failed" ELSE "error"

----------------------------------------------------------------------------
(* services/step*.py: what a stage body needs and what it leaves behind *)

\* outcomes of a stage body: "ok"; "fail" = the service reports failure
\* (returns success False or throws); stage 11's service can also return
\* success False without throwing, so a throw is a third outcome there.
\* Stage 0 encodes the screen and then the webcam: "fail" = the screen encode
\* fails (or screen_raw is missing), "fail_webcam" = the webcam encode fails
\* after screen.mp4 was written.
Outcomes(s) ==
    CASE s = 11 -> {"ok", "fail", "raise"}
      [] s = 0 -> {"ok", "fail", "fail_webcam"}
      [] OTHER -> {"ok", "fail"}

\* a task whose except-branch returns instead of re-raising
RaisesSwallowed(s, outcome) == FALSE

\* does the task function end by raising (the chain is then not continued)
Raises(s, outcome) == IF s = 11 THEN outcome = "raise" ELSE outcome # "ok"

\* inputs without which the body cannot succeed
CanSucceed(s, F) ==
    CASE s = 0 -> "screen_raw" \in F
      [] s = 1 -> \/ "combined.webm" \in F
                  \/ {"screen.mp4", "config.json"} \subseteq F
      [] s = 2 -> "original.mp4" \in F
      [] s = 3 -> \/ "combined.webm" \in F /\ "screen.mp4" \notin F
                  \/ /\ "screen.mp4" \in F
                     /\ ("segments.json" \in F \/ "original.mp4" \in F)
      [] s = 4 -> "nosilence.mp4" \in F
      [] s = 7 -> "nosilence.mp4" \in F
      [] s = 8 -> "transcription.json" \in F
      [] s = 11 -> "schedule.json" \in F
      [] OTHER -> TRUE

\* what the external services called by stages 5, 6 and 8 do: TRUE = they
\* answer with usable items; FALSE = every call fails (HTTP status other than
\* 200, timeout)
ServiceItems == BOOLEAN

\* how the services turn a failing external call into the stage's result:
\* suggest_shorts returns [] and generate_shorts succeeds; add_broll succeeds
\* when the analysis fails and fails when no clip could be downloaded;
\* generate_seo fails because call_openrouter raises
ServiceResult(s, outcome, items) ==
    /\ s \notin {5, 6, 8} => items
    /\ (s = 5 /\ ~items) => outcome = "ok"
    /\ (s = 8 /\ ~items) => outcome = "fail"

\* directory after a successful body; items: whether the external services
\* returned any usable item (stages 5 and 6)
SuccessFiles(s, items, F) ==
    CASE s = 0 -> (F \cup {"screen.mp4"}
                     \cup (IF "webcam_raw" \in F THEN {"webcam.mp4"} ELSE {}))
                  \ {"screen_raw", "webcam_raw"}
      [] s = 1 -> F \cup {"original.mp4"}
      [] s = 2 -> F \cup {"segments.json", "nosilence.mp4"}
      [] s = 3 -> IF "combined.webm" \in F /\ "screen.mp4" \notin F THEN F
                  ELSE F \cup {"screennosilence.mp4"}
                         \cup (IF "webcam.mp4" \in F
                               THEN {"webcamnosilence.mp4"} ELSE {})
      [] s = 4 -> F \cup {"transcription.json"}
      [] s = 5 -> IF items /\ "transcription.json" \in F
                  THEN F \cup {"shorts_suggestions.json"}
                         \cup (IF /\ {"screennosilence.mp4", "screen.mp4"} \cap F # {}
                                  /\ {"webcamnosilence.mp4", "webcam.mp4"} \cap F # {}
                               THEN {"shorts"} ELSE {})
                  ELSE F
      [] s = 6 -> IF items /\ "transcription.json" \in F
                  THEN F \cup {"broll", "broll_clips.json"}
                  ELSE F
      [] s = 7 -> F \cup {"illustrated.mp4"}
      [] s = 8 -> F \cup {"seo.json"}
      [] s = 9 -> F \cup {"thumbnail.png"}
      [] s = 10 -> F \cup {"schedule.json"}
      [] OTHER -> F

\* directory after a failed body: stage 2 writes segments.json and unlinks
\* the old nosilence.mp4 before the encode that can fail
FailFiles(s, F) ==
    IF s = 2 /\ "original.mp4" \in F
    THEN (F \cup {"segments.json"}) \ {"nosilence.mp4"}
    ELSE F

\* a stage 0 that unlinks the raw recordings whatever the encodes returned
ConvertFailFilesUnlinked(outcome, F) ==
    (IF outcome = "fail_webcam" THEN F \cup {"screen.mp4"} ELSE F)
        \ {"screen_raw", "webcam_raw"}

\* directory after a failed task_step0_convert: the raise comes before both
\* unlink calls; a failed webcam encode leaves the screen.mp4 already written
ConvertFailFiles(outcome, F) ==
    IF outcome = "fail_webcam" THEN F \cup {"screen.mp4"} ELSE F

----------------------------------------------------------------------------
(* services/step2_silence.py: silence trim.  Times are tenths of a second. *)

DEFAULT_SILENCE_DURATION == 10      \* 1.0 s
DEFAULT_PADDING == 1                \* 0.1 s
MIN_SEGMENT == 1                    \* the 0.1 s a kept segment must exceed
MERGE_GAP == 5                      \* the 0.5 s under which neighbours are merged

\* values of remove_silences' parameter min_silence: the default, which the
\* stage task uses, and a shorter one
MinSilences == {2, DEFAULT_SILENCE_DURATION}

Max(a, b) == IF a >= b THEN a ELSE b
Min(a, b) == IF a <= b THEN a ELSE b

\* detect_silences, one line of ffmpeg's report at a time.  silencedetect
\* reports a silence_start after the previous silence has ended, and a
\* silence_end at least min_duration after its start; the report can end
\* with a silence that was started and not ended ('end': None).
silence_start_line ==
    /\ step2.pc = "detecting"
    /\ Len(step2.silences) < MaxSilences
    /\ step2.silences # <<>> => Last(step2.silences).end # NONE
    /\ \E a \in 0 .. step2.original_duration :
          /\ step2.silences # <<>> => a > Last(step2.silences).end
          /\ step2' = [step2 EXCEPT
                          !.silences = Append(@, [start |-> a, end |-> NONE])]
    /\ UNCHANGED pipeline
    /\ UNCHANGED <<step5, step7, step8, step10, step11, cut>>

silence_end_line ==
    /\ step2.pc = "detecting"
    /\ step2.silences # <<>>
    /\ Last(step2.silences).end = NONE
    /\ \E b \in 0 .. step2.original_duration :
          /\ b >= Last(step2.silences).start + step2.min_silence
          /\ step2' = [step2 EXCEPT !.silences[Len(step2.silences)].end = b]
    /\ UNCHANGED pipeline
    /\ UNCHANGED <<step5, step7, step8, step10, step11, cut>>

\* last_end = s['end'] if s['end'] else s['start']: None and 0.0 are falsy
LastEnd(s) == IF s.end # NONE /\ s.end # 0 THEN s.end ELSE s.start

SegStart(last_end, padding) ==
    IF last_end > 0 THEN Max(0, last_end - padding) ELSE last_end

\* a kept segment that stops short of the silence instead of reaching into it
SegEndShort(total_duration, s, padding) == Min(total_duration, s.start - padding)

SegEnd(total_duration, s, padding) == Min(total_duration, s.start + padding)

\* a last segment whose start is not clamped to 0
LastSegmentUnclamped(last_end, total_duration, padding) ==
    [start |-> last_end - padding, end |-> total_duration]

\* "Dernier segment"
LastSegment(last_end, total_duration, padding) ==
    [start |-> Max(0, last_end - padding), end |-> total_duration]

\* the loop over the silences and the last segment
RECURSIVE SpeechLoop(_, _, _, _, _)
SpeechLoop(silences, last_end, segments, total_duration, padding) ==
    IF silences = <<>>
    THEN IF last_end < total_duration
         THEN Append(segments, LastSegment(last_end, total_duration, padding))
         ELSE segments
    ELSE LET s == Head(silences)
             seg_start == SegStart(last_end, padding)
             seg_end == SegEnd(total_duration, s, padding)
         IN  SpeechLoop(Tail(silences), LastEnd(s),
                        IF seg_end > seg_start + MIN_SEGMENT
                        THEN Append(segments, [start |-> seg_start, end |-> seg_end])
                        ELSE segments,
                        total_duration, padding)

\* "Fusionner segments proches"
RECURSIVE MergeSegments(_, _)
MergeSegments(segments, merged) ==
    IF segments = <<>> THEN merged
    ELSE LET seg == Head(segments)
         IN  IF merged # <<>> /\ seg.start - Last(merged).end < MERGE_GAP
             THEN MergeSegments(Tail(segments),
                                [merged EXCEPT ![Len(merged)].end = seg.end])
             ELSE MergeSegments(Tail(segments), Append(merged, seg))

\* the loop's list returned without the merge pass
get_speech_segments_unmerged(silences, total_duration, padding) ==
    SpeechLoop(silences, 0, <<>>, total_duration, padding)

get_speech_segments(silences, total_duration, padding) ==
    MergeSegments(SpeechLoop(silences, 0, <<>>, total_duration, padding), <<>>)

\* remove_silences up to the json.dump of segments.json, once ffmpeg's report
\* has been read to its end
remove_silences ==
    /\ step2.pc = "detecting"
    /\ step2' = [step2 EXCEPT
                    !.pc = "written",
                    !.segments = get_speech_segments(step2.silences,
                                                     step2.original_duration,
                                                     DEFAULT_PADDING)]
    /\ UNCHANGED pipeline
    /\ UNCHANGED <<step5, step7, step8, step10, step11, cut>>

----------------------------------------------------------------------------
(* services/step5_shorts.py: shorts.  Times are seconds. *)

OUTRO_DURATION == 4
MAX_SHORT_TOTAL == 30
MAX_SHORT_CONTENT == MAX_SHORT_TOTAL - OUTRO_DURATION
MIN_SHORT == 3                      \* create_short: duration < 3 is refused
SNAP_FALLBACK == 15                 \* best_end = best_start + 15
max_shorts == 3                     \* generate_shorts(video_folder, max_shorts=3)

\* durations of the segments the speech-to-text service returns
SegmentLengths == {2, 13, 27}

Abs(x) == IF x < 0 THEN 0 - x ELSE x

\* stage 4 has written transcription.json: one more segment of it
transcribe_segment ==
    /\ step5.pc = "transcript"
    /\ step5.run = 1
    /\ Len(step5.segments) < MaxSegments
    /\ \E len \in SegmentLengths :
          LET from == IF step5.segments = <<>> THEN 0
                      ELSE Last(step5.segments).end
          IN  step5' = [step5 EXCEPT
                          !.segments = Append(@, [start |-> from, end |-> from + len])]
    /\ UNCHANGED pipeline
    /\ UNCHANGED <<step2, step7, step8, step10, step11, cut>>

\* the two loops of snap_to_segment_boundaries: the first value with the
\* smallest distance wins (min_diff = NONE stands for float('inf'))
RECURSIVE NearestLoop(_, _, _, _)
NearestLoop(values, target, best, min_diff) ==
    IF values = <<>> THEN best
    ELSE LET diff == Abs(Head(values) - target)
         IN  IF min_diff = NONE \/ diff < min_diff
             THEN NearestLoop(Tail(values), target, Head(values), diff)
             ELSE NearestLoop(Tail(values), target, best, min_diff)

snap_to_segment_boundaries(start, end, segments) ==
    IF segments = <<>> THEN <<start, end>>
    ELSE LET best_start == NearestLoop([i \in 1 .. Len(segments) |-> segments[i].start],
                                       start, start, NONE)
             best_end == NearestLoop([i \in 1 .. Len(segments) |-> segments[i].end],
                                     end, end, NONE)
         IN  <<best_start,
               IF best_end <= best_start THEN best_start + SNAP_FALLBACK
               ELSE best_end>>

\* a create_short that encodes whatever duration it is given
ValidDurationAny(duration) == TRUE

\* create_short, "Valider duree"
ValidDuration(duration) == ~(duration < MIN_SHORT \/ duration > MAX_SHORT_CONTENT)

\* generate_shorts up to the loop: suggest_shorts returns [] (no segments, no
\* API key, the model's answer unusable) and the service returns success, or
\* it returns suggestions, which are dumped to shorts_suggestions.json
generate_shorts_suggest ==
    /\ step5.pc = "transcript"
    /\ \E suggestions \in BOOLEAN :
          /\ suggestions => step5.segments # <<>>
          /\ step5' = [step5 EXCEPT
                          !.pc = IF suggestions THEN "loop" ELSE "done",
                          !.success = ~suggestions,
                          !.last = "none"]
    /\ UNCHANGED pipeline
    /\ UNCHANGED <<step2, step7, step8, step10, step11, cut>>

\* the loop "Creer chaque short" takes the next suggestion of the list that
\* was written to shorts_suggestions.json; the language model names any
\* window; the window is snapped to the transcript
generate_shorts_next ==
    /\ step5.pc = "loop"
    /\ \E start \in 0 .. MaxTime, end \in 0 .. MaxTime :
          step5' = [step5 EXCEPT
                      !.pc = "create",
                      !.window = [start |-> start, end |-> end,
                                  snapped |-> snap_to_segment_boundaries(
                                                  start, end, step5.segments)]]
    /\ UNCHANGED pipeline
    /\ UNCHANGED <<step2, step7, step8, step10, step11, cut>>

\* create_short(video_folder, title, start, end) with the snapped window: it
\* refuses the duration, fails (a source is missing, ffmpeg fails), or
\* writes short_<title>_<timestamp>.mp4; the file name is modelled by its
\* timestamp, the wall clock at the time of the call
create_short ==
    /\ step5.pc = "create"
    /\ \E encoded \in BOOLEAN :
          LET duration == step5.window.snapped[2] - step5.window.snapped[1]
              produced == ValidDuration(duration) /\ encoded
          IN  /\ produced => Cardinality(step5.shorts) < MaxFiles
              /\ step5' = [step5 EXCEPT
                              !.pc = "loop",
                              !.window = NoWindow,
                              !.last = IF produced THEN "created"
                                       ELSE IF ValidDuration(duration) THEN "failed"
                                       ELSE "refused",
                              !.shorts = IF produced THEN @ \cup {step5.clock} ELSE @,
                              !.clock = IF produced THEN @ + 1 ELSE @]
    /\ UNCHANGED pipeline
    /\ UNCHANGED <<step2, step7, step8, step10, step11, cut>>

\* the end of generate_shorts: success whether or not a short was created
generate_shorts_return ==
    /\ step5.pc = "loop"
    /\ step5.last # "none"
    /\ step5' = [step5 EXCEPT !.pc = "done", !.success = TRUE]
    /\ UNCHANGED pipeline
    /\ UNCHANGED <<step2, step7, step8, step10, step11, cut>>

\* task_step5_shorts is run again on the same directory (a partial
\* resubmission that includes stage 5): nothing is removed before it
task_step5_shorts_again ==
    /\ step5.pc = "done"
    /\ step5.run = 1
    /\ step5' = [step5 EXCEPT !.pc = "transcript", !.run = 2, !.success = FALSE,
                              !.last = "none", !.before = step5.shorts]
    /\ UNCHANGED pipeline
    /\ UNCHANGED <<step2, step7, step8, step10, step11, cut>>

----------------------------------------------------------------------------
(* services/step10_schedule.py, services/step11_upload.py: schedule.json *)

\* the kinds of upload prepare_schedule plans and the artifact each one sends
ItemTypes == {"illustrated", "classroom", "short"}

ItemFile(i) ==
    CASE i = "illustrated" -> "illustrated.mp4"
      [] i = "classroom" -> "nosilence.mp4"
      [] OTHER -> "shorts"

\* no schedule.json, or one without planned uploads or results
NoSchedule == [uploads |-> {}, uploaded |-> {}, errors |-> {}]

\* prepare_schedule: one planned upload per artifact that exists; a new
\* schedule.json replaces the old one and its upload_results
prepare_schedule(F) ==
    [uploads |-> {i \in ItemTypes : ItemFile(i) \in F},
     uploaded |-> {}, errors |-> {}]

\* upload_to_youtube: authenticated = youtube_service.is_authenticated(),
\* accepted = the items for which upload_video returns a result
upload_to_youtube(F, sch, authenticated, accepted) ==
    IF "schedule.json" \notin F \/ sch.uploads = {} \/ ~authenticated
    THEN [success |-> FALSE, schedule |-> sch]
    ELSE LET uploaded == {i \in sch.uploads : ItemFile(i) \in F /\ i \in accepted}
             errors == sch.uploads \ uploaded
         IN  [success |-> ~(errors # {} /\ uploaded = {}),
              schedule |-> [uploads |-> sch.uploads, uploaded |-> uploaded,
                            errors |-> errors]]

\* what the video host answers during stage 11
Authenticated(s) == IF s = 11 THEN BOOLEAN ELSE {TRUE}

Accepted(s) == IF s = 11 THEN SUBSET schedule.uploads ELSE {{}}

----------------------------------------------------------------------------
(* services/step7_integrate_broll.py: integrate_broll.  The content of a file
   is a number (NONE = the file does not exist); what the final ffmpeg run
   writes differs from every source. *)

\* content of illustrated.mp4 left by an earlier run
StaleContent == 0

\* contents nosilence.mp4 may have
SourceContents == {1, 2}

\* content of the illustrated.mp4 ffmpeg encodes from a source
Encoded(content) == content + 10

\* the copy left out: the destination keeps what it had
shutil_copy_skipped(src, dst) == dst

\* shutil.copy(input_path, output_path): the destination gets the bytes of
\* the source
shutil_copy(src, dst) == src

\* a clip is used when its file exists, its timestamp is inside the video
\* and ffmpeg wrote its prepared file
ClipPrepared(clip, video_duration, written) ==
    /\ clip.exists
    /\ ~(clip.timestamp < 0 \/ clip.timestamp >= video_duration)
    /\ written

\* the start of integrate_broll: without nosilence.mp4 it fails; without
\* clips nosilence.mp4 is copied to illustrated.mp4 and the result is success
integrate_broll_start ==
    /\ step7.pc = "start"
    /\ step7' =
          IF step7.nosilence = NONE
          THEN [step7 EXCEPT !.pc = "done", !.error = "nosilence.mp4 manquant"]
          ELSE IF step7.clips = <<>>
          THEN [step7 EXCEPT !.pc = "done", !.success = TRUE,
                             !.illustrated = shutil_copy(step7.nosilence, @)]
          ELSE [step7 EXCEPT !.pc = "prepare"]
    /\ UNCHANGED pipeline
    /\ UNCHANGED <<step2, step5, step8, step10, step11, cut>>

\* one iteration of the loop that prepares the clips
integrate_broll_prepare ==
    /\ step7.pc = "prepare"
    /\ step7.i <= Len(step7.clips)
    /\ \E written \in BOOLEAN :
          step7' = [step7 EXCEPT
             !.i = @ + 1,
             !.prepared_clips =
                 IF ClipPrepared(step7.clips[step7.i], step7.video_duration, written)
                 THEN @ + 1 ELSE @]
    /\ UNCHANGED pipeline
    /\ UNCHANGED <<step2, step5, step8, step10, step11, cut>>

\* the final encode: no prepared clip is a failure; otherwise the result is
\* success when ffmpeg returns 0 and illustrated.mp4 exists
integrate_broll_encode ==
    /\ step7.pc = "prepare"
    /\ step7.i > Len(step7.clips)
    /\ IF step7.prepared_clips = 0
       THEN step7' = [step7 EXCEPT !.pc = "done",
                                   !.error = "Aucun clip valide prepare"]
       ELSE \E returncode \in {0, 1}, written \in BOOLEAN :
               LET output == IF written THEN Encoded(step7.nosilence)
                             ELSE step7.illustrated
               IN  step7' = [step7 EXCEPT
                      !.pc = "done",
                      !.illustrated = output,
                      !.success = (returncode = 0 /\ output # NONE),
                      !.error = IF returncode = 0 /\ output # NONE
                                THEN @ ELSE "ffmpeg"]
    /\ UNCHANGED pipeline
    /\ UNCHANGED <<step2, step5, step8, step10, step11, cut>>

----------------------------------------------------------------------------
(* services/step8_seo.py: generate_main_video_seo and generate_short_seo.  A
   response is a sequence of tokens: a code fence, the word json, a JSON
   object, a JSON array, or other text. *)

Tokens == {"fence", "json", "object", "array", "text"}

SeoKinds == {"main", "short"}

\* result.split(fence)[1] of a response that starts with a fence: what stands
\* between the first fence and the next one
RECURSIVE UpToFence(_)
UpToFence(r) ==
    IF r = <<>> \/ Head(r) = "fence" THEN <<>>
    ELSE <<Head(r)>> \o UpToFence(Tail(r))

\* the cleaning before json.loads: the fence and the word json are removed
CleanResponse(r) ==
    LET inner == IF r # <<>> /\ Head(r) = "fence" THEN UpToFence(Tail(r)) ELSE r
    IN  IF inner # <<>> /\ Head(inner) = "json" THEN Tail(inner) ELSE inner

\* json.loads: a dict, a list, or JSONDecodeError
json_loads(r) ==
    IF r = <<"object">> THEN "dict"
    ELSE IF r = <<"array">> THEN "list"
    ELSE "JSONDecodeError"

\* call_openrouter: status 200 gives the content, any other status raises
call_openrouter ==
    /\ step8.pc = "call"
    /\ \E status_200 \in BOOLEAN :
          step8' = [step8 EXCEPT
             !.calls = @ + 1,
             !.pc = IF status_200 THEN "parse" ELSE "except",
             !.outcome = IF status_200 THEN @ ELSE "Exception"]
    /\ UNCHANGED pipeline
    /\ UNCHANGED <<step2, step5, step7, step10, step11, cut>>

\* the rest of the try-block and the except-branch of generate_main_video_seo /
\* generate_short_seo: the parsed dict is completed and returned, or the
\* hard-coded value is returned on JSONDecodeError; .get on a list raises
\* AttributeError, which the function does not catch
parse_response ==
    /\ step8.pc = "parse"
    /\ LET loaded == json_loads(CleanResponse(step8.response))
       IN  step8' = [step8 EXCEPT
              !.pc = IF loaded = "list" THEN "except" ELSE "save",
              !.outcome = CASE loaded = "dict" -> "parsed"
                            [] loaded = "list" -> "AttributeError"
                            [] OTHER -> "skeleton"]
    /\ UNCHANGED pipeline
    /\ UNCHANGED <<step2, step5, step7, step10, step11, cut>>

\* generate_seo: seo.json is written and success is True, or its
\* except-branch returns success False with the error
generate_seo_return ==
    /\ step8.pc \in {"save", "except"}
    /\ step8' = [step8 EXCEPT !.pc = "done", !.success = (step8.pc = "save")]
    /\ UNCHANGED pipeline
    /\ UNCHANGED <<step2, step5, step7, step10, step11, cut>>

----------------------------------------------------------------------------
(* services/step10_schedule.py: prepare_schedule.  A date is the number of
   days after the day of the run (strftime('%Y-%m-%d') of now + that many
   days); weekdays are datetime.weekday(), 0 = Monday. *)

\* BEST_DAYS[:4]
TopBestDays == {1, 2, 3, 5}

\* OPTIMAL_HOURS, as hours of the day
OPTIMAL_HOURS == <<18, 19, 20, 17, 12, 13>>

CLASSROOM_HOUR == 10

\* range(14): the days get_next_optimal_date looks at
SEARCH_DAYS == 14

\* the for-loop of get_next_optimal_date: n iterations left
RECURSIVE NextBestDay(_, _, _)
NextBestDay(weekday, target, n) ==
    IF n = 0 \/ (weekday + target) % 7 \in TopBestDays THEN target
    ELSE NextBestDay(weekday, target + 1, n - 1)

\* get_next_optimal_date(start_from, offset_days), start_from on the given weekday
get_next_optimal_date(weekday, offset_days) ==
    [date |-> NextBestDay(weekday, 1 + offset_days, SEARCH_DAYS),
     time |-> OPTIMAL_HOURS[(offset_days % Len(OPTIMAL_HOURS)) + 1]]

\* 1. illustrated.mp4: public, first optimal day
schedule_illustrated ==
    /\ step10.pc = "illustrated"
    /\ step10' = [step10 EXCEPT
          !.pc = "classroom",
          !.uploads = IF step10.illustrated
                      THEN Append(@, [type |-> "illustrated", privacy |-> "public",
                                      scheduled_date |->
                                         get_next_optimal_date(step10.weekday, 0).date,
                                      scheduled_time |->
                                         get_next_optimal_date(step10.weekday, 0).time])
                      ELSE @]
    /\ UNCHANGED pipeline
    /\ UNCHANGED <<step2, step5, step7, step8, step11, cut>>

\* 2. nosilence.mp4: unlisted, same day at 10:00
schedule_classroom ==
    /\ step10.pc = "classroom"
    /\ step10' = [step10 EXCEPT
          !.pc = "shorts",
          !.uploads = IF step10.nosilence
                      THEN Append(@, [type |-> "classroom", privacy |-> "unlisted",
                                      scheduled_date |->
                                         get_next_optimal_date(step10.weekday, 0).date,
                                      scheduled_time |-> CLASSROOM_HOUR])
                      ELSE @]
    /\ UNCHANGED pipeline
    /\ UNCHANGED <<step2, step5, step7, step8, step11, cut>>

\* 3. one iteration of the loop over the sorted files of shorts/
schedule_short ==
    /\ step10.pc = "shorts"
    /\ step10.i < step10.shorts_files
    /\ step10' = [step10 EXCEPT
          !.i = @ + 1,
          !.uploads = Append(@, [type |-> "short", privacy |-> "public",
                                 scheduled_date |->
                                    get_next_optimal_date(step10.weekday,
                                                          1 + step10.i).date,
                                 scheduled_time |->
                                    get_next_optimal_date(step10.weekday,
                                                          1 + step10.i).time])]
    /\ UNCHANGED pipeline
    /\ UNCHANGED <<step2, step5, step7, step8, step11, cut>>

\* schedule.json is written and returned
schedule_save ==
    /\ step10.pc = "shorts"
    /\ step10.i = step10.shorts_files
    /\ step10' = [step10 EXCEPT !.pc = "done"]
    /\ UNCHANGED pipeline
    /\ UNCHANGED <<step2, step5, step7, step8, step11, cut>>

----------------------------------------------------------------------------
(* services/step11_upload.py: the loop of upload_to_youtube.  Times are whole
   hours.  datetime.now() and strptime give naive wall-clock values of the
   process's local time zone; isoformat() + "Z" labels such a value as UTC. *)

\* timedelta(hours=1)
REANCHOR_HOURS == 1

\* hours the process's local time is ahead of UTC
UtcOffsets == {-5, 0, 1, 2}

Privacies == {"public", "unlisted", "private"}

\* no call of youtube_service.upload_video made yet, or none for this entry
NoCall == [made |-> FALSE]

\* the instant a wall-clock value of the process denotes, in hours UTC
LocalInstant(wall, utc_offset) == wall - utc_offset

\* the instant the host reads in publish_at: the digits as they are, as UTC
PublishInstant(publish_at) == publish_at

\* publish_at of one entry: scheduled = NONE when scheduled_date or
\* scheduled_time is missing or does not parse
PublishAt(scheduled, now) ==
    IF scheduled = NONE THEN NONE
    ELSE IF scheduled <= now THEN now + REANCHOR_HOURS
    ELSE scheduled

\* services/youtube_service.py upload_video: the status part of the body of
\* videos().insert
upload_video(privacy, publish_at) ==
    [privacyStatus |-> IF publish_at # NONE THEN "private" ELSE privacy,
     publishAt |-> IF publish_at # NONE /\ privacy = "public"
                   THEN publish_at ELSE NONE]

FinalPrivacy(privacy, publish_at) ==
    IF privacy = "unlisted" THEN privacy
    ELSE IF publish_at # NONE /\ privacy = "public" THEN "private"
    ELSE privacy

FinalPublishAt(privacy, publish_at) ==
    IF privacy = "unlisted" THEN NONE ELSE publish_at

\* the arguments of upload_video for one entry and the body it sends
UploadCall(privacy, scheduled, now) ==
    LET publish_at == PublishAt(scheduled, now)
    IN  [made |-> TRUE,
         privacy |-> privacy,
         scheduled |-> scheduled,
         now |-> now,
         publish_at |-> publish_at,
         final_privacy |-> FinalPrivacy(privacy, publish_at),
         final_publish_at |-> FinalPublishAt(privacy, publish_at),
         body |-> upload_video(FinalPrivacy(privacy, publish_at),
                               FinalPublishAt(privacy, publish_at))]

\* one iteration of the loop over schedule["uploads"]; the upload itself takes
\* elapsed hours
upload_item ==
    /\ step11.pc = "loop"
    /\ step11.n < MaxItems
    /\ \E privacy \in Privacies, scheduled \in {NONE} \cup 0 .. MaxClock,
          exists \in BOOLEAN, elapsed \in 0 .. 1 :
          step11' = [step11 EXCEPT
             !.n = @ + 1,
             !.call = IF exists THEN UploadCall(privacy, scheduled, step11.now)
                      ELSE NoCall,
             !.now = IF exists THEN Min(@ + elapsed, MaxClock) ELSE @]
    /\ UNCHANGED pipeline
    /\ UNCHANGED <<step2, step5, step7, step8, step10, cut>>

\* schedule['upload_results'] is written and the results are returned
upload_results ==
    /\ step11.pc = "loop"
    /\ step11' = [step11 EXCEPT !.pc = "done"]
    /\ UNCHANGED pipeline
    /\ UNCHANGED <<step2, step5, step7, step8, step10, cut>>

----------------------------------------------------------------------------
(* routers/projects.py: the keep-segments of cut_video.  Times are whole
   seconds. *)

\* sorted(request.cuts, key=lambda x: x.start): stable, by start only
RECURSIVE InsertCut(_, _)
InsertCut(sorted, c) ==
    IF sorted = <<>> THEN <<c>>
    ELSE IF Last(sorted).start <= c.start THEN Append(sorted, c)
    ELSE Append(InsertCut(SubSeq(sorted, 1, Len(sorted) - 1), c), Last(sorted))

RECURSIVE SortCuts(_)
SortCuts(cuts) ==
    IF cuts = <<>> THEN <<>>
    ELSE InsertCut(SortCuts(SubSeq(cuts, 1, Len(cuts) - 1)), Last(cuts))

\* the cuts are sorted; an empty request is refused with 400
cut_video_sort ==
    /\ cut.pc = "request"
    /\ cut' = [cut EXCEPT !.pc = IF cut.cuts = <<>> THEN "rejected" ELSE "loop",
                          !.sorted = SortCuts(cut.cuts)]
    /\ UNCHANGED pipeline
    /\ UNCHANGED <<step2, step5, step7, step8, step10, step11>>

\* one iteration of the loop over the sorted cuts
cut_video_keep ==
    /\ cut.pc = "loop"
    /\ cut.i <= Len(cut.sorted)
    /\ LET c == cut.sorted[cut.i]
       IN  cut' = [cut EXCEPT
              !.i = @ + 1,
              !.keep_segments = IF c.start > cut.current_start
                                THEN Append(@, [start |-> cut.current_start,
                                                end |-> c.start])
                                ELSE @,
              !.current_start = c.end]
    /\ UNCHANGED pipeline
    /\ UNCHANGED <<step2, step5, step7, step8, step10, step11>>

\* the last segment is added; a request that keeps nothing is refused with 400
cut_video_last ==
    /\ cut.pc = "loop"
    /\ cut.i > Len(cut.sorted)
    /\ LET keep == IF cut.current_start < cut.duration
                   THEN Append(cut.keep_segments,
                               [start |-> cut.current_start, end |-> cut.duration])
                   ELSE cut.keep_segments
       IN  cut' = [cut EXCEPT !.keep_segments = keep,
                              !.pc = IF keep = <<>> THEN "rejected" ELSE "cutting"]
    /\ UNCHANGED pipeline
    /\ UNCHANGED <<step2, step5, step7, step8, step10, step11>>

----------------------------------------------------------------------------
(* tasks.py: process_partial_pipeline *)

StepKeys == 1 .. 11

InSteps(i) == i \in StepKeys

\* the chain process_partial_pipeline builds, or how it ends without one
PartialResult(start_step, end_step) ==
    LET selected_steps == SelectSeq(Range(start_step, end_step), InSteps)
    IN  IF selected_steps = <<>>
        THEN [kind |-> "empty", stages |-> <<>>]
        ELSE IF start_step \notin StepKeys
             THEN [kind |-> "KeyError", stages |-> <<>>]
             ELSE [kind |-> "started",
                   stages |-> <<start_step>> \o Tail(selected_steps)]

----------------------------------------------------------------------------
(* Broker submissions *)

\* chain(...).apply_async() returns the result of the chain's last task;
\* task.delay() returns the result of the task itself
ChainHandle(c, stages) == <<c, Last(stages)>>

NewChain(origin, start_step, end_step, stages) ==
    [origin |-> origin, start |-> start_step, end |-> end_step,
     stages |-> stages,
     launch |-> IF stages = <<>> THEN "pending" ELSE "none",
     started |-> 0, done |-> 0, failed |-> NONE,
     handle |-> IF stages = <<>> THEN <<Len(chains) + 1, LAUNCH>>
                ELSE ChainHandle(Len(chains) + 1, stages),
     recorded |-> FALSE,
     out |-> {},
     wrote |-> NONE,
     service |-> TRUE]

\* pipeline.apply_async() / task.delay(): publish the first message
Submit(origin, start_step, end_step, stages) ==
    LET c == Len(chains) + 1
    IN  /\ chains' = Append(chains, NewChain(origin, start_step, end_step, stages))
        /\ queue' = Append(queue, IF stages = <<>> THEN <<c, LAUNCH>>
                                  ELSE <<c, stages[1]>>)

\* celery_app.control.revoke(task_id, terminate=True): the workers remember
\* the id and kill the pool process executing it
Revoke(id) ==
    /\ revoked' = IF id = NoTask THEN revoked ELSE revoked \cup {id}
    /\ running' = running \ {id}

----------------------------------------------------------------------------
(* Worker pool: celery_app.py, tasks.py *)

\* a pool process is free to take the next message
FreeSlot == Cardinality(running) < WorkerConcurrency

\* a worker receives a message whose id was revoked: it is dropped, and a
\* chain is not continued past a dropped task
DiscardRevoked ==
    /\ queue # <<>>
    /\ FreeSlot
    /\ Head(queue) \in revoked
    /\ queue' = Tail(queue)
    /\ LET c == Head(queue)[1]
       IN  chains' = IF Head(queue)[2] = LAUNCH
                     THEN [chains EXCEPT ![c].launch = "revoked"]
                     ELSE chains
    /\ UNCHANGED <<registry, files, schedule, running, revoked, ctl>>
    /\ UNCHANGED <<last_completed, steps, services>>

\* process_partial_pipeline(video_folder, start_step, end_step)
process_partial_pipeline ==
    /\ queue # <<>>
    /\ FreeSlot
    /\ Head(queue) \notin revoked
    /\ Head(queue)[2] = LAUNCH
    /\ LET c == Head(queue)[1]
           r == PartialResult(chains[c].start, chains[c].end)
       IN  /\ chains' = [chains EXCEPT ![c].launch = r.kind,
                                       ![c].stages = r.stages]
           /\ queue' = IF r.kind = "started"
                       THEN Append(Tail(queue), <<c, r.stages[1]>>)
                       ELSE Tail(queue)
    /\ UNCHANGED <<registry, files, schedule, running, revoked, ctl>>
    /\ UNCHANGED <<last_completed, steps, services>>

\* entry of task_step<N>: update_project_status(video_folder, N, "processing")
StageEntry ==
    /\ queue # <<>>
    /\ FreeSlot
    /\ Head(queue) \notin revoked
    /\ Head(queue)[2] \in Stages
    /\ LET c == Head(queue)[1]
           s == Head(queue)[2]
       IN  /\ running' = running \cup {Head(queue)}
           /\ UpdateProjectStatus(s, "processing", FALSE)
           /\ chains' = [chains EXCEPT ![c].started = @ + 1,
                                       ![c].wrote = progress']
    /\ queue' = Tail(queue)
    /\ UNCHANGED <<celery_task_id, files, schedule, revoked, ctl>>
    /\ UNCHANGED <<last_completed, steps, services>>

\* the registry write that ends task_step<N>
ExitWrite(s, outcome) ==
    IF Raises(s, outcome)
    THEN UpdateProjectStatus(s, FailureStatus(s), TRUE)
    ELSE CASE s = 10 -> /\ status' = "ready_to_upload"
                        /\ progress' = 90
                        /\ current_step' = 10
                        /\ error' = error
           [] s = 11 -> UpdateProjectStatus(11, "completed", FALSE)
           [] OTHER -> UNCHANGED <<status, current_step, progress, error>>

\* a chain whose signatures are not linked: nothing follows a task
ContinueChainDropped(c, s, outcome) == queue

\* the chain is continued with the next signature only when the task returns
ContinueChain(c, s, outcome) ==
    IF ~Raises(s, outcome) /\ chains[c].started < Len(chains[c].stages)
    THEN Append(queue, <<c, chains[c].stages[chains[c].started + 1]>>)
    ELSE queue

\* body and exit of the running task_step<N> with id t
StageFinish(t) ==
    /\ t \in running
    /\ LET c == t[1]
           s == t[2]
       IN  \E outcome \in Outcomes(s), items \in ServiceItems,
              authenticated \in Authenticated(s), accepted \in Accepted(s) :
              /\ outcome = "ok" => CanSucceed(s, files)
              /\ outcome = "fail_webcam" =>
                    {"screen_raw", "webcam_raw"} \subseteq files
              /\ ServiceResult(s, outcome, items)
              /\ (s = 11 /\ outcome # "raise") =>
                    ((outcome = "ok") =
                       upload_to_youtube(files, schedule, authenticated,
                                         accepted).success)
              /\ schedule' =
                    CASE s = 10 /\ outcome = "ok" -> prepare_schedule(files)
                      [] s = 11 /\ outcome # "raise" ->
                           upload_to_youtube(files, schedule, authenticated,
                                             accepted).schedule
                      [] OTHER -> schedule
              /\ files' = IF outcome = "ok" THEN SuccessFiles(s, items, files)
                          ELSE IF s = 6 /\ ~items THEN files \cup {"broll"}
                          ELSE IF s = 0 THEN ConvertFailFiles(outcome, files)
                          ELSE FailFiles(s, files)
              /\ ExitWrite(s, outcome)
              /\ chains' = [chains EXCEPT
                              ![c].done = IF outcome = "ok" THEN @ + 1 ELSE @,
                              ![c].failed = IF outcome = "ok" THEN @ ELSE s,
                              ![c].out = IF outcome = "ok" /\ s = 10
                                         THEN files' ELSE @,
                              ![c].wrote = IF Raises(s, outcome) \/ s >= 10
                                           THEN progress' ELSE @,
                              ![c].service = items]
              /\ queue' = ContinueChain(c, s, outcome)
              /\ last_completed' = IF outcome = "ok" /\ s > last_completed
                                   THEN s ELSE last_completed
    /\ running' = running \ {t}
    /\ UNCHANGED <<celery_task_id, steps, revoked, ctl, services>>

\* celery_app.py task_soft_time_limit=3000: SoftTimeLimitExceeded is raised
\* inside the running task_step<N>; it is an Exception, so the task's
\* except-branch records the failure with its own status and re-raises
task_soft_time_limit(t) ==
    /\ t \in running
    /\ LET c == t[1]
           s == t[2]
       IN  /\ UpdateProjectStatus(s, FailureStatus(s), TRUE)
           /\ files' = IF s = 0 THEN ConvertFailFiles("fail", files)
                       ELSE FailFiles(s, files)
           /\ chains' = [chains EXCEPT ![c].failed = s,
                                       ![c].wrote = progress']
    /\ running' = running \ {t}
    /\ UNCHANGED <<celery_task_id, schedule, queue, revoked, ctl>>
    /\ UNCHANGED <<last_completed, steps, services>>

\* celery_app.py task_time_limit=3600: the pool process executing the task is
\* killed; no line of the task runs any more, so nothing is written to the
\* registry, and the chain is not continued
task_time_limit(t) ==
    /\ t \in running
    /\ running' = running \ {t}
    /\ UNCHANGED <<registry, files, schedule, chains, queue, revoked, ctl>>
    /\ UNCHANGED <<last_completed, steps, services>>

----------------------------------------------------------------------------
(* Controller: main.py create_project / create_composite_project *)

ProjectKnown == "config.json" \in files

\* tasks a submission hands to the broker over its life
TasksOf(ch) ==
    IF ch.launch = "none" THEN Len(ch.stages)
    ELSE 1 + Len(PartialResult(ch.start, ch.end).stages)

RECURSIVE TasksSubmitted(_)
TasksSubmitted(n) ==
    IF n = 0 THEN 0 ELSE TasksSubmitted(n - 1) + TasksOf(chains[n])

\* the model accepts a request that adds k tasks only within its bounds
CanSubmit(k) ==
    /\ Len(chains) < MaxChains
    /\ TasksSubmitted(Len(chains)) + k <= MaxTasks

At(op, pc) == ctl.op = op /\ ctl.pc = pc

\* raw uploads and config.json are saved; status "converting"
create_project_upload ==
    /\ ctl = Idle /\ ~ProjectKnown
    /\ \E webcam \in BOOLEAN, auto_process \in BOOLEAN :
          /\ schedule' = schedule
          /\ files' = {"screen_raw", "config.json"}
                        \cup (IF webcam THEN {"webcam_raw"} ELSE {})
          /\ ctl' = IF auto_process
                    THEN [op |-> "create", pc |-> "submit", arg |-> 0]
                    ELSE Idle
    /\ status' = "converting"
    /\ UNCHANGED <<current_step, progress, error, celery_task_id, broker>>
    /\ UNCHANGED <<last_completed, steps, services>>

\* status "processing", current_step 0, chain 0..10 handed to the broker
create_project_submit ==
    /\ At("create", "submit")
    /\ status' = "processing"
    /\ current_step' = 0
    /\ Submit("create", 0, 10, Range(0, 10))
    /\ ctl' = [op |-> "create", pc |-> "record", arg |-> Len(chains) + 1]
    /\ UNCHANGED <<progress, error, celery_task_id, files, schedule, running, revoked>>
    /\ UNCHANGED <<last_completed, steps, services>>

\* db.update_project(project_id, {"celery_task_id": task_id})
create_project_record ==
    /\ At("create", "record")
    /\ celery_task_id' = chains[ctl.arg].handle
    /\ chains' = [chains EXCEPT ![ctl.arg].recorded = TRUE]
    /\ ctl' = Idle
    /\ UNCHANGED <<status, current_step, progress, error, files, schedule, queue,
                   running, revoked>>
    /\ UNCHANGED <<last_completed, steps, services>>

\* the composite upload and config.json are saved; the status stays "uploading"
create_composite_upload ==
    /\ ctl = Idle /\ ~ProjectKnown
    /\ \E auto_process \in BOOLEAN :
          ctl' = IF auto_process
                 THEN [op |-> "composite", pc |-> "submit", arg |-> 0]
                 ELSE Idle
    /\ files' = {"combined.webm", "config.json"}
    /\ schedule' = schedule
    /\ UNCHANGED <<registry, broker>>
    /\ UNCHANGED <<last_completed, steps, services>>

create_composite_submit ==
    /\ At("composite", "submit")
    /\ status' = "processing"
    /\ current_step' = 0
    /\ Submit("composite", 1, 10, Range(1, 10))
    /\ ctl' = [op |-> "composite", pc |-> "record", arg |-> Len(chains) + 1]
    /\ UNCHANGED <<progress, error, celery_task_id, files, schedule, running, revoked>>
    /\ UNCHANGED <<last_completed, steps, services>>

create_composite_record ==
    /\ At("composite", "record")
    /\ celery_task_id' = chains[ctl.arg].handle
    /\ chains' = [chains EXCEPT ![ctl.arg].recorded = TRUE]
    /\ ctl' = Idle
    /\ UNCHANGED <<status, current_step, progress, error, files, schedule, queue,
                   running, revoked>>
    /\ UNCHANGED <<last_completed, steps, services>>

----------------------------------------------------------------------------
(* Controller: routers/projects.py *)

\* start_step, end_step pairs a /start request is tried with
StartArgs == {<<1, 10>>, <<0, 10>>, <<9, 11>>}

\* start_project_pipeline: process_partial_pipeline.delay(folder, start, end)
start_project_pipeline_delay ==
    /\ ctl = Idle /\ ProjectKnown
    /\ \E a \in StartArgs :
          /\ CanSubmit(1 + Len(PartialResult(a[1], a[2]).stages))
          /\ Submit("partial", a[1], a[2], <<>>)
    /\ ctl' = [op |-> "start", pc |-> "record", arg |-> Len(chains) + 1]
    /\ UNCHANGED <<registry, files, schedule, running, revoked>>
    /\ UNCHANGED <<last_completed, steps, services>>

\* start_project_pipeline: update {celery_task_id, status: processing}
start_project_pipeline_record ==
    /\ At("start", "record")
    /\ celery_task_id' = chains[ctl.arg].handle
    /\ status' = "processing"
    /\ chains' = [chains EXCEPT ![ctl.arg].recorded = TRUE]
    /\ ctl' = Idle
    /\ UNCHANGED <<current_step, progress, error, files, schedule, queue, running, revoked>>
    /\ UNCHANGED <<last_completed, steps, services>>

\* reboot_project, steps 1 and 2: revoke the stored id, trim the directory
reboot_project_clean ==
    /\ ctl = Idle /\ ProjectKnown /\ CanSubmit(12)
    /\ Revoke(celery_task_id)
    /\ files' = files \cap files_to_keep
    /\ schedule' = NoSchedule
    /\ ctl' = [op |-> "reboot", pc |-> "submit", arg |-> 0]
    /\ UNCHANGED <<registry, chains, queue>>
    /\ UNCHANGED <<last_completed, steps, services>>

\* reboot_project, steps 3 and 4: reset the record, delay(folder, 1, 12)
reboot_project_submit ==
    /\ At("reboot", "submit")
    /\ status' = "created"
    /\ current_step' = NONE
    /\ progress' = 0
    /\ celery_task_id' = NoTask
    /\ last_completed' = NONE
    /\ steps' = [s \in Stages |-> "absent"]
    /\ Submit("reboot", 1, 12, <<>>)
    /\ ctl' = [op |-> "reboot", pc |-> "record", arg |-> Len(chains) + 1]
    /\ UNCHANGED <<error, files, schedule, running, revoked, services>>

\* reboot_project: update {celery_task_id, status: processing}
reboot_project_record ==
    /\ At("reboot", "record")
    /\ celery_task_id' = chains[ctl.arg].handle
    /\ status' = "processing"
    /\ chains' = [chains EXCEPT ![ctl.arg].recorded = TRUE]
    /\ ctl' = Idle
    /\ UNCHANGED <<current_step, progress, error, files, schedule, queue, running, revoked>>
    /\ UNCHANGED <<last_completed, steps, services>>

\* the same handler with the registry reset that reboot_project performs
stop_pipeline_reset ==
    /\ ctl = Idle /\ ProjectKnown
    /\ Revoke(celery_task_id)
    /\ status' = "stopped"
    /\ current_step' = NONE
    /\ celery_task_id' = NoTask
    /\ ctl' = [op |-> "stop", pc |-> "return", arg |-> 200]
    /\ UNCHANGED <<progress, error, files, schedule, chains, queue>>
    /\ UNCHANGED <<last_completed, steps, services>>

\* stop_pipeline: revoke the stored id, update {status: stopped,
\* celery_task_id: None, step_name}
stop_pipeline ==
    /\ ctl = Idle /\ ProjectKnown
    /\ Revoke(celery_task_id)
    /\ status' = "stopped"
    /\ celery_task_id' = NoTask
    /\ ctl' = [op |-> "stop", pc |-> "return", arg |-> 200]
    /\ UNCHANGED <<current_step, progress, error, files, schedule, chains, queue>>
    /\ UNCHANGED <<last_completed, steps, services>>

\* start_youtube_upload: the status gate, then task_step11_upload.delay(...)
start_youtube_upload_delay ==
    /\ ctl = Idle /\ ProjectKnown
    /\ IF status \in UploadStatuses
       THEN /\ CanSubmit(1)
            /\ Submit("upload", 11, 11, <<11>>)
            /\ ctl' = [op |-> "upload", pc |-> "record", arg |-> Len(chains) + 1]
       ELSE /\ ctl' = [op |-> "upload", pc |-> "rejected", arg |-> 400]
            /\ UNCHANGED <<chains, queue>>
    /\ UNCHANGED <<registry, files, schedule, running, revoked>>
    /\ UNCHANGED <<last_completed, steps, services>>

\* start_youtube_upload: update {celery_task_id, status: processing,
\* current_step: 11, step_name}
start_youtube_upload_record ==
    /\ At("upload", "record")
    /\ celery_task_id' = chains[ctl.arg].handle
    /\ status' = "processing"
    /\ current_step' = 11
    /\ chains' = [chains EXCEPT ![ctl.arg].recorded = TRUE]
    /\ ctl' = Idle
    /\ UNCHANGED <<progress, error, files, schedule, queue, running, revoked>>
    /\ UNCHANGED <<last_completed, steps, services>>

\* cut_video: the sources are cut in place (backups kept) and the generated
\* files are deleted; without screen.mp4 the request is refused
cut_video_files ==
    /\ ctl = Idle /\ ProjectKnown /\ CanSubmit(10)
    /\ IF "screen.mp4" \in files
       THEN /\ files' = ((files \cup {"screen_original.mp4"})
                           \cup (IF "webcam.mp4" \in files
                                 THEN {"webcam_original.mp4"} ELSE {}))
                        \ files_to_delete
            /\ schedule' = NoSchedule
            /\ ctl' = [op |-> "cut", pc |-> "submit", arg |-> 0]
       ELSE /\ ctl' = [op |-> "cut", pc |-> "rejected", arg |-> 404]
            /\ UNCHANGED <<files, schedule>>
    /\ UNCHANGED <<registry, broker>>
    /\ UNCHANGED <<last_completed, steps, services>>

\* cut_video: update {status: processing, current_step: 1, progress: 8},
\* then chain 1..10 handed to the broker
cut_video_submit ==
    /\ At("cut", "submit")
    /\ status' = "processing"
    /\ current_step' = 1
    /\ progress' = 8
    /\ Submit("cut", 1, 10, Range(1, 10))
    /\ ctl' = [op |-> "cut", pc |-> "record", arg |-> Len(chains) + 1]
    /\ UNCHANGED <<error, celery_task_id, files, schedule, running, revoked>>
    /\ UNCHANGED <<last_completed, steps, services>>

\* cut_video: update {celery_task_id}
cut_video_record ==
    /\ At("cut", "record")
    /\ celery_task_id' = chains[ctl.arg].handle
    /\ chains' = [chains EXCEPT ![ctl.arg].recorded = TRUE]
    /\ ctl' = Idle
    /\ UNCHANGED <<status, current_step, progress, error, files, schedule, queue,
                   running, revoked>>
    /\ UNCHANGED <<last_completed, steps, services>>

\* a handler returns its response or its HTTPException
Respond ==
    /\ ctl.pc \in {"rejected", "return"}
    /\ ctl' = Idle
    /\ UNCHANGED <<registry, files, schedule, broker>>
    /\ UNCHANGED <<last_completed, steps, services>>

----------------------------------------------------------------------------
(* Specification *)

\* db.create_project(..., status="uploading") has inserted the record
InitPipeline ==
    /\ status = "uploading"
    /\ current_step = NONE
    /\ progress = 0
    /\ error = NONE
    /\ celery_task_id = NoTask
    /\ files = {}
    /\ schedule = NoSchedule
    /\ last_completed = NONE
    /\ steps = InitialSteps
    /\ chains = <<>>
    /\ queue = <<>>
    /\ running = {}
    /\ revoked = {}
    /\ ctl = Idle

Init ==
    /\ InitPipeline
    /\ step2 = Step2Idle
    /\ step5 = Step5Idle
    /\ step7 = Step7Idle
    /\ step8 = Step8Idle
    /\ step10 = Step10Idle
    /\ step11 = Step11Idle
    /\ cut = CutIdle

Next ==
    \/ create_project_upload
    \/ create_project_submit
    \/ create_project_record
    \/ create_composite_upload
    \/ create_composite_submit
    \/ create_composite_record
    \/ start_project_pipeline_delay
    \/ start_project_pipeline_record
    \/ reboot_project_clean
    \/ reboot_project_submit
    \/ reboot_project_record
    \/ stop_pipeline
    \/ start_youtube_upload_delay
    \/ start_youtube_upload_record
    \/ cut_video_files
    \/ cut_video_submit
    \/ cut_video_record
    \/ Respond
    \/ DiscardRevoked
    \/ process_partial_pipeline
    \/ StageEntry
    \/ \E t \in running : StageFinish(t)
    \/ \E t \in running : task_soft_time_limit(t)
    \/ \E t \in running : task_time_limit(t)

Spec == Init /\ [][Next]_vars

\* Project creation followed by the workers alone: no other controller request
\* arrives and no time limit strikes.  A pool process that is free takes the
\* next message of the queue (prefetch multiplier 1), and a stage body ends
\* (every subprocess and HTTP call in it returns), hence weak fairness on both.
NextCreation ==
    \/ create_project_upload
    \/ create_project_submit
    \/ create_project_record
    \/ create_composite_upload
    \/ create_composite_submit
    \/ create_composite_record
    \/ StageEntry
    \/ \E t \in running : StageFinish(t)

\* One run of stage 2's service on an original.mp4 of any duration
InitStep2 ==
    /\ InitPipeline
    /\ step5 = Step5Idle
    /\ step7 = Step7Idle
    /\ step8 = Step8Idle
    /\ step10 = Step10Idle
    /\ step11 = Step11Idle
    /\ cut = CutIdle
    /\ step2 \in {[pc |-> "detecting", original_duration |-> d, min_silence |-> m,
                    silences |-> <<>>, segments |-> <<>>] :
                      d \in 1 .. MaxDuration, m \in MinSilences}

NextStep2 ==
    \/ silence_start_line
    \/ silence_end_line
    \/ remove_silences

SpecStep2 == InitStep2 /\ [][NextStep2]_vars

\* Stage 5's service on a transcript, and once more on the same directory
InitStep5 ==
    /\ InitPipeline
    /\ step2 = Step2Idle
    /\ step7 = Step7Idle
    /\ step8 = Step8Idle
    /\ step10 = Step10Idle
    /\ step11 = Step11Idle
    /\ cut = CutIdle
    /\ step5 = [pc |-> "transcript", run |-> 1, segments |-> <<>>,
                window |-> NoWindow, last |-> "none", shorts |-> {},
                clock |-> 0, before |-> {}, success |-> FALSE]

NextStep5 ==
    \/ transcribe_segment
    \/ generate_shorts_suggest
    \/ generate_shorts_next
    \/ create_short
    \/ generate_shorts_return
    \/ task_step5_shorts_again

SpecStep5 == InitStep5 /\ [][NextStep5]_vars

SpecCreation ==
    /\ Init
    /\ [][NextCreation]_vars
    /\ WF_vars(StageEntry)
    /\ WF_vars(\E t \in running : StageFinish(t))

\* Publication of a project whose run of stages 1..10 has ended with
\* ready_to_upload: only start_youtube_upload requests arrive.  The
\* submissions of the earlier run are over (nothing of them is queued or
\* executing) and are not carried in chains; its chain handle is <<0, 10>>.
ReadyDirectories ==
    LET base == {"config.json", "screen.mp4", "original.mp4", "segments.json",
                 "nosilence.mp4", "screennosilence.mp4", "transcription.json",
                 "illustrated.mp4", "seo.json", "thumbnail.png",
                 "schedule.json"}
    IN  {base \cup extra : extra \in SUBSET {"shorts", "shorts_suggestions.json"}}

InitPublication ==
    /\ status = "ready_to_upload"
    /\ current_step = 10
    /\ progress = ProgressOf(10)
    /\ error = NONE
    /\ celery_task_id = <<0, 10>>
    /\ files \in ReadyDirectories
    /\ schedule = prepare_schedule(files)
    /\ last_completed = 10
    /\ steps = InitialSteps
    /\ chains = <<>>
    /\ queue = <<>>
    /\ running = {}
    /\ revoked = {}
    /\ ctl = Idle
    /\ step2 = Step2Idle
    /\ step5 = Step5Idle
    /\ step7 = Step7Idle
    /\ step8 = Step8Idle
    /\ step10 = Step10Idle
    /\ step11 = Step11Idle
    /\ cut = CutIdle

NextPublication ==
    \/ start_youtube_upload_delay
    \/ start_youtube_upload_record
    \/ Respond
    \/ StageEntry
    \/ \E t \in running : StageFinish(t)

SpecPublication == InitPublication /\ [][NextPublication]_vars

\* the entries broll_clips.json may hold
BrollClips(video_duration) ==
    [exists : BOOLEAN, timestamp : -1 .. video_duration]

RECURSIVE ClipLists(_, _)
ClipLists(n, video_duration) ==
    IF n = 0 THEN {<<>>}
    ELSE LET shorter == ClipLists(n - 1, video_duration)
         IN  shorter \cup {Append(l, c) : l \in shorter,
                                          c \in BrollClips(video_duration)}

\* One run of stage 7's service: nosilence.mp4 present or not, broll_clips.json
\* absent, empty or with up to MaxClips entries, illustrated.mp4 absent or left
\* by an earlier run
InitStep7 ==
    /\ InitPipeline
    /\ step2 = Step2Idle
    /\ step5 = Step5Idle
    /\ step8 = Step8Idle
    /\ step10 = Step10Idle
    /\ step11 = Step11Idle
    /\ cut = CutIdle
    /\ \E d \in 1 .. MaxTimestamp :
          step7 \in {[pc |-> "start", nosilence |-> n, video_duration |-> d,
                      clips_json |-> j, clips |-> l, illustrated |-> o,
                      i |-> 1, prepared_clips |-> 0, success |-> FALSE,
                      error |-> "none"] :
                        n \in SourceContents \cup {NONE}, j \in BOOLEAN,
                        l \in ClipLists(MaxClips, d),
                        o \in {NONE, StaleContent}}
    /\ ~step7.clips_json => step7.clips = <<>>

NextStep7 ==
    \/ integrate_broll_start
    \/ integrate_broll_prepare
    \/ integrate_broll_encode

SpecStep7 == InitStep7 /\ [][NextStep7]_vars

RECURSIVE Responses(_)
Responses(n) ==
    IF n = 0 THEN {<<>>}
    ELSE LET shorter == Responses(n - 1)
         IN  shorter \cup {Append(r, t) : r \in shorter, t \in Tokens}

\* One language-model request of stage 8, for the main video or for a short,
\* answered with any response of up to MaxTokens tokens
InitStep8 ==
    /\ InitPipeline
    /\ step2 = Step2Idle
    /\ step5 = Step5Idle
    /\ step7 = Step7Idle
    /\ step10 = Step10Idle
    /\ step11 = Step11Idle
    /\ cut = CutIdle
    /\ step8 \in {[pc |-> "call", kind |-> k, response |-> r, calls |-> 0,
                   outcome |-> "none", success |-> FALSE] :
                     k \in SeoKinds, r \in Responses(MaxTokens)}

NextStep8 ==
    \/ call_openrouter
    \/ parse_response
    \/ generate_seo_return

SpecStep8 == InitStep8 /\ [][NextStep8]_vars

\* One run of stage 10's service on any weekday, with or without
\* illustrated.mp4 and nosilence.mp4 and with any number of short files
InitStep10 ==
    /\ InitPipeline
    /\ step2 = Step2Idle
    /\ step5 = Step5Idle
    /\ step7 = Step7Idle
    /\ step8 = Step8Idle
    /\ step11 = Step11Idle
    /\ cut = CutIdle
    /\ step10 \in {[pc |-> "illustrated", weekday |-> w, illustrated |-> a,
                    nosilence |-> b, shorts_files |-> n, i |-> 0,
                    uploads |-> <<>>] :
                      w \in 0 .. 6, a \in BOOLEAN, b \in BOOLEAN,
                      n \in 0 .. MaxShorts}

NextStep10 ==
    \/ schedule_illustrated
    \/ schedule_classroom
    \/ schedule_short
    \/ schedule_save

SpecStep10 == InitStep10 /\ [][NextStep10]_vars

\* One run of stage 11's loop, started at any hour on a host in any of the
\* time zones of UtcOffsets
InitStep11 ==
    /\ InitPipeline
    /\ step2 = Step2Idle
    /\ step5 = Step5Idle
    /\ step7 = Step7Idle
    /\ step8 = Step8Idle
    /\ step10 = Step10Idle
    /\ cut = CutIdle
    /\ step11 \in {[pc |-> "loop", now |-> t, utc_offset |-> z, n |-> 0,
                    call |-> NoCall] : t \in 0 .. MaxClock, z \in UtcOffsets}

NextStep11 ==
    \/ upload_item
    \/ upload_results

SpecStep11 == InitStep11 /\ [][NextStep11]_vars

\* the cuts a request may hold: a start before the end, the end up to one
\* second past the end of the video
CutSegments(duration) ==
    {c \in [start : 0 .. duration, end : 1 .. duration + 1] : c.start < c.end}

RECURSIVE CutRequests(_, _)
CutRequests(n, duration) ==
    IF n = 0 THEN {<<>>}
    ELSE LET shorter == CutRequests(n - 1, duration)
         IN  shorter \cup {Append(r, c) : r \in shorter, c \in CutSegments(duration)}

\* One cut request of up to MaxCuts cuts, in any order, on a screen.mp4 of any
\* duration
InitCut ==
    /\ InitPipeline
    /\ step2 = Step2Idle
    /\ step5 = Step5Idle
    /\ step7 = Step7Idle
    /\ step8 = Step8Idle
    /\ step10 = Step10Idle
    /\ step11 = Step11Idle
    /\ \E d \in 1 .. MaxCutDuration :
          cut \in {[pc |-> "request", cuts |-> r, duration |-> d, sorted |-> <<>>,
                    i |-> 1, current_start |-> 0, keep_segments |-> <<>>] :
                      r \in CutRequests(MaxCuts, d)}

NextCut ==
    \/ cut_video_sort
    \/ cut_video_keep
    \/ cut_video_last

SpecCut == InitCut /\ [][NextCut]_vars

----------------------------------------------------------------------------
(* Properties *)

ChainIds == 1 .. Len(chains)

\* the tasks of submission c that are queued or being executed
LiveTasks(c) ==
    {queue[i] : i \in {j \in 1 .. Len(queue) : queue[j][1] = c /\ queue[j][2] # LAUNCH}}
    \cup {t \in running : t[1] = c}

Queued(t) == \E i \in 1 .. Len(queue) : queue[i] = t

\* C1: in every chain the stages are entered in submission order, a stage is
\* entered only after every stage before it has returned successfully, and
\* once a stage body has failed no later stage of the chain is queued or run.
C1_ChainOrder ==
    \A c \in ChainIds :
        LET ch == chains[c]
        IN  /\ ch.started <= Len(ch.stages)
            /\ ch.done <= ch.started /\ ch.started <= ch.done + 1
            /\ Cardinality(LiveTasks(c)) <= 1
            /\ \A t \in LiveTasks(c) :
                  IF Queued(t)
                  THEN /\ ch.done = ch.started
                       /\ ch.started < Len(ch.stages)
                       /\ t[2] = ch.stages[ch.started + 1]
                  ELSE /\ ch.started = ch.done + 1
                       /\ t[2] = ch.stages[ch.started]
            /\ ch.failed # NONE =>
                  /\ LiveTasks(c) = {}
                  /\ ch.started = ch.done + 1
                  /\ ch.failed = ch.stages[ch.started]

\* a stage failed in the middle of a chain: earlier stages had succeeded and
\* later stages exist
C1_Witness ==
    \E c \in ChainIds :
        /\ chains[c].failed # NONE
        /\ chains[c].done >= 2
        /\ chains[c].started < Len(chains[c].stages)

\* C2: every chain submitted by a path other than start_youtube_upload ends
\* at or before stage 10; stage 11 only ever sits in a chain of its own.
C2_PublicationSeparate ==
    \A c \in ChainIds :
        chains[c].origin # "upload" =>
            \A i \in 1 .. Len(chains[c].stages) : chains[c].stages[i] <= 10

C4_FailureRecorded ==
    [][\A c \in ChainIds :
          (chains[c].failed = NONE /\ chains'[c].failed # NONE) =>
              /\ status' = "failed"
              /\ current_step' = chains'[c].failed
              /\ error' = chains'[c].failed
      ]_vars

\* C5: a partial submission with 0 <= start <= end <= 11 that reached a
\* worker has built and submitted exactly the chain start .. end.
C5_PartialChain ==
    \A c \in ChainIds :
        LET ch == chains[c]
        IN  (/\ ch.origin = "partial"
             /\ ch.launch \notin {"pending", "revoked"}
             /\ 0 <= ch.start /\ ch.start <= ch.end /\ ch.end <= 11) =>
                /\ ch.launch = "started"
                /\ ch.stages = Range(ch.start, ch.end)

\* C6: a stop request sets status to stopped and leaves the artifact
\* directory, current_step, progress and the recorded error as they were.
C6_StopFrame ==
    [][(ctl = Idle /\ ctl'.op = "stop") =>
          /\ status' = "stopped"
          /\ files' = files
          /\ current_step' = current_step
          /\ progress' = progress
          /\ error' = error
      ]_vars

\* a stop during stage 2 has just been performed
C6_Witness ==
    /\ ctl.op = "stop"
    /\ status = "stopped"
    /\ current_step = 2
    /\ "original.mp4" \in files
    /\ \E t \in running : t[2] = 2

\* C7: once a stop has set status to stopped, no step other than a new
\* controller request changes the status again.
C7_StaysStopped ==
    [][(status = "stopped" /\ ctl.op \in {"idle", "stop"}
          /\ ctl'.op \in {"idle", "stop"}) => status' = "stopped"]_vars

\* C8: a stage entered after the registry stopped holding the handle of its
\* chain writes neither the registry nor the artifact directory.
C8_StaleStageExits ==
    [][\A c \in ChainIds :
          (/\ chains'[c].started > chains[c].started
           /\ chains[c].recorded
           /\ celery_task_id # chains[c].handle) =>
              UNCHANGED <<status, current_step, progress, error, files>>
      ]_vars

\* C9: a stored task handle is replaced by a new one only after it has been
\* revoked.
C9_RevokeBeforeOverwrite ==
    [][(/\ celery_task_id # NoTask
        /\ celery_task_id' # NoTask
        /\ celery_task_id' # celery_task_id) => celery_task_id \in revoked
      ]_vars

\* C10: at most one stage body of the project is executing at any time.
C10_OneStageAtATime ==
    Cardinality({t \in running : t[2] \in Stages}) <= 1

\* reboot_project has cleaned the directory and the chain it submits has not
\* yet completed a stage
RebootSeedOnly ==
    \/ ctl.op = "reboot" /\ ctl.pc = "submit"
    \/ /\ Len(chains) > 0
       /\ chains[Len(chains)].origin = "reboot"
       /\ chains[Len(chains)].done = 0

\* C11: the cleanup of reboot_project removes exactly the entries other than
\* config.json, screen.mp4 and webcam.mp4, and from the cleanup until the
\* chain it submits completes its first stage the directory holds only those.
C11_RebootCleansToSeed ==
    [][/\ (ctl.op # "reboot" /\ ctl'.op = "reboot") =>
            files' = files \cap files_to_keep
       /\ RebootSeedOnly' => files' \subseteq files_to_keep
      ]_vars

\* submission c is a full run from project creation whose stages all succeeded
FullRunCompleted(c) ==
    /\ chains[c].origin \in {"create", "composite"}
    /\ chains[c].done = Len(chains[c].stages)

\* nothing of submission c is queued or executing any more
Ended(c) ==
    /\ chains[c].launch \in {"none", "started"}
    /\ chains[c].started > 0
    /\ LiveTasks(c) = {}

\* C12: after a completed full run, what reboot_project leaves lets the run
\* succeed again; a rebooted run whose stages 1..10 all succeeded ends with
\* status ready_to_upload and with the artifact names of the earlier run.
C12_RebootEqualsFreshRun ==
    \A p \in ChainIds, c \in ChainIds :
        (/\ p < c /\ c = Len(chains)
         /\ FullRunCompleted(p) /\ Ended(p)
         /\ chains[c].origin = "reboot") =>
            /\ (chains[c].started = 0 /\ chains[c].launch = "pending") =>
                  CanSucceed(1, files)
            /\ chains[c].done >= 10 => chains[c].out = chains[p].out
            /\ (chains[c].done >= 10 /\ Ended(c) /\ ctl = Idle) =>
                  status = "ready_to_upload"

\* C13: whenever status is ready_to_upload, original.mp4, nosilence.mp4,
\* illustrated.mp4, thumbnail.png, seo.json and schedule.json are all in the
\* artifact directory.
C13_ReadyHasArtifacts ==
    status = "ready_to_upload" =>
        {"original.mp4", "nosilence.mp4", "illustrated.mp4",
         "thumbnail.png", "seo.json", "schedule.json"} \subseteq files

\* C14: whenever status is completed, every upload planned in schedule.json
\* is either recorded as uploaded or listed in the upload errors.
C14_CompletedAllSettled ==
    status = "completed" =>
        \A i \in schedule.uploads :
            i \in schedule.uploaded \/ i \in schedule.errors

\* C15: the project becomes completed only when at least one planned item
\* was uploaded.
C15_CompletedNeedsUpload ==
    [][(status # "completed" /\ status' = "completed") =>
          schedule'.uploaded # {}]_vars

\* C16: the progress values that the tasks of one chain write to the
\* registry never decrease, over stage entries, a failure, the write of 90
\* that ends stage 10 and the write of 100 that ends stage 11.
C16_ProgressMonotone ==
    [][\A c \in ChainIds : chains'[c].wrote >= chains[c].wrote]_vars

\* a chain went through the end of stage 10, the entry of stage 11 and the
\* end of stage 11
C16_Witness ==
    \E c \in ChainIds :
        /\ chains[c].wrote = 100
        /\ chains[c].started >= 3
        /\ chains[c].stages[chains[c].started] = 11

\* C17: in every state current_step is at most one more than the highest
\* stage that has succeeded since the project was created or last rebooted
\* (a current_step of None and "no stage yet" both count as -1).
C17_StepWithinReach ==
    current_step <= last_completed + 1

\* C18: on entry a stage sets its own steps entry to "processing" and
\* current_step to its number; when its body succeeds it sets its steps
\* entry to "completed".
C18_StepsMarked ==
    [][\A c \in ChainIds :
          /\ chains'[c].started > chains[c].started =>
                LET s == chains'[c].stages[chains'[c].started]
                IN  steps'[s] = "processing" /\ current_step' = s
          /\ chains'[c].done > chains[c].done =>
                steps'[chains'[c].stages[chains'[c].done]] = "completed"
      ]_vars

\* the input files the stages are described as requiring
StageInputs(s) ==
    CASE s = 2 -> {"original.mp4"}
      [] s \in {4, 7} -> {"nosilence.mp4"}
      [] s \in {5, 6, 8} -> {"transcription.json"}
      [] s = 10 -> {"seo.json", "illustrated.mp4"}
      [] OTHER -> {}

\* C19: when the body of a stage ends and one of the stage's required input
\* files is absent, the stage has failed, nothing more of its chain is
\* queued, and the project status becomes failed.
C19_MissingInputFails ==
    [][\A c \in ChainIds :
          (/\ \/ chains'[c].done # chains[c].done
              \/ chains'[c].failed # chains[c].failed
           /\ ~(StageInputs(chains[c].stages[chains[c].started]) \subseteq files))
          => /\ chains'[c].done = chains[c].done
             /\ (LiveTasks(c) = {})'
             /\ status' = "failed"
      ]_vars

\* C20: when the external service fails during stage 5, 6 or 8, the stage
\* still completes successfully and the chain continues with its next stage.
C20_ServiceFailureTolerated ==
    [][\A c \in ChainIds :
          (/\ \/ chains'[c].done # chains[c].done
              \/ chains'[c].failed # chains[c].failed
           /\ chains[c].stages[chains[c].started] \in {5, 6, 8}
           /\ ~chains'[c].service)
          => /\ chains'[c].done = chains[c].done + 1
             /\ chains[c].started < Len(chains[c].stages) =>
                   (Queued(<<c, chains[c].stages[chains[c].started + 1]>>))'
      ]_vars

\* a step in which the time limit of the running task t strikes
TimedOut(t) == task_soft_time_limit(t) \/ task_time_limit(t)

\* C21: a stage that exceeds its soft or hard time limit is treated as failed:
\* the project status becomes "failed" and nothing of its chain runs afterwards.
C21_TimeLimitFails ==
    [][\A t \in running :
          TimedOut(t) => /\ status' = "failed"
                         /\ (LiveTasks(t[1]) = {})']_vars

\* C26: stage 0 removes the raw recordings only after every required encode
\* succeeded: a failing stage 0 (screen or webcam encode) leaves every raw
\* recording in place, records "failed" and nothing of its chain is queued
\* or running; a stage 0 that removed them left screen.mp4, and webcam.mp4
\* when there was a webcam recording.
C26_RawKeptUntilConverted ==
    [][\A c \in ChainIds :
          (<<c, 0>> \in running /\ <<c, 0>> \notin running') =>
             /\ chains'[c].failed = 0 =>
                   /\ files \cap {"screen_raw", "webcam_raw"} \subseteq files'
                   /\ status' = "failed"
                   /\ (LiveTasks(c) = {})'
             /\ files \cap {"screen_raw", "webcam_raw"} \notin {{}, files' \cap {"screen_raw", "webcam_raw"}} =>
                   /\ chains'[c].done = chains[c].done + 1
                   /\ "screen.mp4" \in files'
                   /\ "webcam_raw" \in files => "webcam.mp4" \in files']_vars

\* the webcam encode of stage 0 has failed: screen.mp4 is written, both raw
\* recordings are still there and the project is failed
C26_Witness ==
    \E c \in ChainIds :
        /\ chains[c].failed = 0
        /\ {"screen_raw", "webcam_raw", "screen.mp4"} \subseteq files
        /\ "webcam.mp4" \notin files
        /\ status = "failed"
        /\ LiveTasks(c) = {}

\* the automatic pipeline's terminus as stage 10 writes it
ReadyToUpload ==
    status = "ready_to_upload" /\ current_step = 10 /\ progress = 90

\* C22: when a chain is submitted at project creation, no stage body of it
\* fails and no controller request follows the creation, the project
\* eventually has status ready_to_upload, current_step 10 and progress 90, and
\* keeps them from then on (no later submission exists in these behaviours).
C22_CreationReachesReady ==
    <>[](\/ chains = <<>>
         \/ \E c \in ChainIds : chains[c].failed # NONE
         \/ ReadyToUpload)

\* a chain submitted at creation has run all its stages and the project is
\* ready to upload
C22_Witness ==
    /\ ReadyToUpload
    /\ \E c \in ChainIds : /\ chains[c].origin \in {"create", "composite"}
                            /\ chains[c].done = Len(chains[c].stages)
                            /\ chains[c].failed = NONE

\* the detected silences are intervals inside [0, D], sorted and disjoint
WellFormedSilences ==
    \A i \in 1 .. Len(step2.silences) :
        /\ step2.silences[i].end # NONE
        /\ 0 <= step2.silences[i].start
        /\ step2.silences[i].start < step2.silences[i].end
        /\ step2.silences[i].end <= step2.original_duration
        /\ i > 1 => step2.silences[i - 1].end <= step2.silences[i].start

\* the tenth of a second [t, t + 1) lies inside silence i / kept segment j
InSilence(t, i) ==
    step2.silences[i].start <= t /\ t + 1 <= step2.silences[i].end

InSegment(t, j) ==
    step2.segments[j].start <= t /\ t + 1 <= step2.segments[j].end

\* C23: for sorted, disjoint silences inside [0, D] and padding 0.1 s, the
\* kept segments written by stage 2 cover every instant outside all silences,
\* and an instant of a kept segment that lies inside a silence is within
\* 0.1 s of an edge of the segment or inside a silence whose gap after
\* padding is shorter than 0.5 s (a merged gap).
C23_SegmentsComplementSilences ==
    (step2.pc = "written" /\ WellFormedSilences) =>
        /\ \A t \in 0 .. (step2.original_duration - 1) :
              (\A i \in 1 .. Len(step2.silences) : ~InSilence(t, i)) =>
                 \E j \in 1 .. Len(step2.segments) : InSegment(t, j)
        /\ \A t \in 0 .. (step2.original_duration - 1) :
              \A i \in 1 .. Len(step2.silences), j \in 1 .. Len(step2.segments) :
                 (InSilence(t, i) /\ InSegment(t, j)) =>
                    \/ t < step2.segments[j].start + DEFAULT_PADDING
                    \/ t + 1 > step2.segments[j].end - DEFAULT_PADDING
                    \/ (step2.silences[i].end - DEFAULT_PADDING)
                         - (step2.silences[i].start + DEFAULT_PADDING) < MERGE_GAP

\* two silences were detected, one long enough to be cut out and one short
\* enough to be merged over, and the segments are written
C23_Witness ==
    /\ step2.pc = "written"
    /\ WellFormedSilences
    /\ Len(step2.silences) = 2
    /\ Len(step2.segments) = 2
    /\ \E i \in 1 .. 2 : step2.silences[i].end - step2.silences[i].start < MERGE_GAP
    /\ \E i \in 1 .. 2 :
          step2.silences[i].end - step2.silences[i].start >= DEFAULT_SILENCE_DURATION

\* C27: when no silence is detected in an input of duration D, stage 2 writes
\* exactly one kept segment, from 0 to D.
C27_NoSilenceOneSegment ==
    (step2.pc = "written" /\ step2.silences = <<>>) =>
        step2.segments = <<[start |-> 0, end |-> step2.original_duration]>>

\* segments.json was written for an input without any silence
C27_Witness ==
    /\ step2.pc = "written"
    /\ step2.silences = <<>>
    /\ step2.original_duration = MaxDuration
    /\ Len(step2.segments) = 1

\* the segment starts and ends of transcription.json
SegmentStarts == {step5.segments[i].start : i \in 1 .. Len(step5.segments)}
SegmentEnds == {step5.segments[i].end : i \in 1 .. Len(step5.segments)}

\* C24: every window stored in shorts_suggestions.json has end - start in
\* [3, 26] seconds and both of its endpoints are a segment start and a
\* segment end of transcription.json.
C24_StoredWindowsValid ==
    step5.window # NoWindow =>
        /\ step5.window.end - step5.window.start >= MIN_SHORT
        /\ step5.window.end - step5.window.start <= MAX_SHORT_CONTENT
        /\ step5.window.start \in SegmentStarts
        /\ step5.window.end \in SegmentEnds

\* C25: running stage 5 again on unchanged inputs leaves the same set of
\* short files as the run before: nothing accumulates, and stages 8 and 10
\* count the same shorts.
C25_RerunSameShorts ==
    (step5.run = 2 /\ step5.pc = "done") => step5.shorts = step5.before

\* C29: for a non-empty transcript and any proposed window, snapping returns
\* (s, e) with s the segment start nearest to the window's start, e the
\* segment end nearest to the window's end, both present in the transcript,
\* and e > s.
C29_SnapNearestBoundaries ==
    (step5.window # NoWindow /\ step5.segments # <<>>) =>
        LET s == step5.window.snapped[1]
            e == step5.window.snapped[2]
        IN  /\ s \in SegmentStarts
            /\ e \in SegmentEnds
            /\ \A x \in SegmentStarts :
                  Abs(s - step5.window.start) <= Abs(x - step5.window.start)
            /\ \A y \in SegmentEnds :
                  Abs(e - step5.window.end) <= Abs(y - step5.window.end)
            /\ e > s

\* the snapped duration of the window create_short is called with
SnappedDuration == step5.window.snapped[2] - step5.window.snapped[1]

\* C30: create_short writes a short file only for a window whose snapped
\* duration lies in [3, 26] seconds; for a window outside that range it
\* writes nothing and the loop goes on; generate_shorts returns success
\* whatever the loop produced, also with no short at all.
C30_ShortsWithinDuration ==
    /\ [][step5.pc = "create" =>
            /\ step5'.shorts # step5.shorts =>
                  (SnappedDuration >= MIN_SHORT /\ SnappedDuration <= MAX_SHORT_CONTENT)
            /\ (SnappedDuration < MIN_SHORT \/ SnappedDuration > MAX_SHORT_CONTENT) =>
                  (step5'.shorts = step5.shorts /\ step5'.pc = "loop")]_vars
    /\ [](step5.pc = "done" => step5.success)

\* generate_shorts has returned with success although the last window was
\* refused for its duration and no short file exists
C30_Witness ==
    /\ step5.pc = "done"
    /\ step5.success
    /\ step5.last = "refused"
    /\ step5.shorts = {}

\* C28: stage 3 cuts screen.mp4 and webcam.mp4 with the segment list stage 2
\* wrote to segments.json and with no other list: whenever a stage 3 task
\* returns after cutting the sources, segments.json was there for it to load.
C28_CutsWithStage2List ==
    [][\A c \in ChainIds :
          (/\ <<c, 3>> \in running
           /\ chains'[c].done = chains[c].done + 1
           /\ "screen.mp4" \in files) => "segments.json" \in files]_vars

\* the detected silences are sorted, disjoint and inside [0, D]; the last one
\* may have been started and never ended
SilencesSortedInside ==
    \A i \in 1 .. Len(step2.silences) :
        /\ 0 <= step2.silences[i].start
        /\ step2.silences[i].start <= step2.original_duration
        /\ step2.silences[i].end = NONE => i = Len(step2.silences)
        /\ step2.silences[i].end # NONE =>
              /\ step2.silences[i].start < step2.silences[i].end
              /\ step2.silences[i].end <= step2.original_duration
        /\ i > 1 => step2.silences[i - 1].end <= step2.silences[i].start

\* C39: for sorted, disjoint silences inside [0, D], the last one possibly
\* unterminated, the kept segments are well formed: each has
\* 0 <= start < end <= D, they are sorted by start, and two consecutive
\* segments are disjoint and at least 0.5 s apart.
C39_SegmentsWellFormed ==
    (step2.pc = "written" /\ SilencesSortedInside) =>
        /\ \A j \in 1 .. Len(step2.segments) :
              /\ 0 <= step2.segments[j].start
              /\ step2.segments[j].start < step2.segments[j].end
              /\ step2.segments[j].end <= step2.original_duration
        /\ \A j \in 2 .. Len(step2.segments) :
              /\ step2.segments[j - 1].start < step2.segments[j].start
              /\ step2.segments[j].start - step2.segments[j - 1].end >= MERGE_GAP

\* segments.json was written for two silences, the second one unterminated,
\* and holds two segments
C39_Witness ==
    /\ step2.pc = "written"
    /\ SilencesSortedInside
    /\ Len(step2.silences) = 2
    /\ step2.silences[2].end = NONE
    /\ Len(step2.segments) = 2

\* C31: one run of stage 5 produces at most max_shorts short files, whatever
\* number of windows the language model returned, and a run that produced
\* none returns success.
C31_AtMostMaxShorts ==
    /\ Cardinality(step5.shorts \ step5.before) <= max_shorts
    /\ (step5.pc = "done" /\ step5.shorts = step5.before) => step5.success

\* C36: a project is not left in status processing with nothing that could
\* still write its status: whenever the status is processing, a task of the
\* project is queued or running, or a controller request is still in flight.
C36_ProcessingHasWork ==
    status = "processing" => (queue # <<>> \/ running # {} \/ ctl # Idle)

\* C37: the controller's write of status processing that follows a submission
\* (start, reboot, publication) never replaces the status left by a chain that
\* has already ended: when the submission's chain has nothing queued or
\* executing any more, recording the submission leaves the status as it is.
C37_TerminalStatusKept ==
    [][ (/\ ctl.pc = "record"
         /\ ctl.op \in {"start", "reboot", "upload"}
         /\ Ended(ctl.arg)
         /\ ctl' = Idle)
        => status' = status
      ]_vars

\* C38: an item of schedule.json that an earlier run of stage 11 uploaded is
\* not sent to the video host again: a stage 11 task that ends with success
\* uploads no item that schedule.json already lists as uploaded.
C38_PublishedAtMostOnce ==
    [][ \A t \in running :
          (/\ t[2] = 11
           /\ running' = running \ {t}
           /\ chains'[t[1]].done = chains[t[1]].done + 1)
          => schedule'.uploaded \cap schedule.uploaded = {}
      ]_vars

\* C34: on every weekday and for every number of shorts, the scheduled dates
\* of the shorts in schedule.json are pairwise distinct and each one is
\* strictly later than the scheduled date of the illustrated video.
C34_ShortsDatesDistinctLater ==
    step10.pc = "done" =>
        \A j, k \in 1 .. Len(step10.uploads) :
            LET a == step10.uploads[j]
                b == step10.uploads[k]
            IN  /\ (a.type = "short" /\ b.type = "short" /\ j # k)
                      => a.scheduled_date # b.scheduled_date
                /\ (a.type = "short" /\ b.type = "illustrated")
                      => a.scheduled_date > b.scheduled_date

\* what stage 11 passes to upload_video for an entry it uploads: a date and
\* time that are not in the future are replaced by one hour from now; a public
\* entry with a publish time is passed as private with that time; an unlisted
\* entry is passed as unlisted without one
C35_CallAsScheduled ==
    step11.call.made =>
        LET c == step11.call
        IN  /\ (c.scheduled # NONE /\ c.scheduled <= c.now)
                  => c.publish_at = c.now + REANCHOR_HOURS
            /\ (c.privacy = "public" /\ c.publish_at # NONE)
                  => (c.final_privacy = "private"
                      /\ c.final_publish_at = c.publish_at)
            /\ c.privacy = "unlisted"
                  => (c.final_privacy = "unlisted" /\ c.final_publish_at = NONE)

\* C35: every entry stage 11 uploads is passed on as C35_CallAsScheduled says
\* and reaches the video host that way (a public entry with a publish time as
\* private with that publish_at, an unlisted entry as unlisted without one),
\* and every publish_at handed over denotes an instant later than the instant
\* of the upload.
C35_PublishAtInFuture ==
    /\ C35_CallAsScheduled
    /\ step11.call.made =>
        LET c == step11.call
        IN  /\ (c.privacy = "public" /\ c.publish_at # NONE)
                  => (c.body.privacyStatus = "private"
                      /\ c.body.publishAt = c.publish_at)
            /\ c.privacy = "unlisted"
                  => (c.body.privacyStatus = "unlisted" /\ c.body.publishAt = NONE)
            /\ c.final_publish_at # NONE
                  => PublishInstant(c.final_publish_at)
                        > LocalInstant(c.now, step11.utc_offset)

\* C33: when the response of a language-model request of stage 8 does not
\* parse as JSON, the request is made a second time before the hard-coded
\* value is used, and the stage does not fail.
C33_ParseFailureRetried ==
    (/\ step8.pc = "done"
     /\ step8.outcome # "Exception"
     /\ json_loads(CleanResponse(step8.response)) = "JSONDecodeError")
    => (step8.calls = 2 /\ step8.success)

\* a response that does not parse gives the hard-coded value and a
\* successful stage, after one request
C33_ParseFailureSkeleton ==
    (/\ step8.pc = "done"
     /\ step8.outcome # "Exception"
     /\ json_loads(CleanResponse(step8.response)) = "JSONDecodeError")
    => (step8.calls = 1 /\ step8.outcome = "skeleton" /\ step8.success)

\* second t of the video (the interval from t to t + 1) lies in a requested cut
InCut(t) ==
    \E k \in 1 .. Len(cut.cuts) : cut.cuts[k].start <= t /\ t < cut.cuts[k].end

\* second t of the video lies in a kept segment
InKept(t) ==
    \E k \in 1 .. Len(cut.keep_segments) :
        cut.keep_segments[k].start <= t /\ t < cut.keep_segments[k].end

\* C40: for every list of requested cuts the keep-segments are exactly the
\* complement of the union of the cuts within [0, duration]: every kept
\* segment has start < end, the kept segments are sorted and disjoint, and a
\* second of the video is kept exactly when no requested cut covers it.
C40_KeepIsComplement ==
    cut.pc = "cutting" =>
        /\ \A k \in 1 .. Len(cut.keep_segments) :
              /\ 0 <= cut.keep_segments[k].start
              /\ cut.keep_segments[k].start < cut.keep_segments[k].end
              /\ cut.keep_segments[k].end <= cut.duration
        /\ \A k \in 1 .. Len(cut.keep_segments) - 1 :
              cut.keep_segments[k].end <= cut.keep_segments[k + 1].start
        /\ \A t \in 0 .. cut.duration - 1 : InKept(t) = ~InCut(t)

\* C32: with nosilence.mp4 present and broll_clips.json absent or holding an
\* empty list, stage 7 succeeds and illustrated.mp4 has the content of
\* nosilence.mp4; whenever stage 7 reports success, illustrated.mp4 exists.
C32_NoClipsCopies ==
    step7.pc = "done" =>
        /\ (step7.nosilence # NONE /\ step7.clips = <<>>)
              => (step7.success /\ step7.illustrated = step7.nosilence)
        /\ step7.success => step7.illustrated # NONE

\* a run with an empty broll_clips.json over an illustrated.mp4 of an earlier
\* run has ended
C32_Witness ==
    /\ step7.pc = "done"
    /\ step7.clips_json /\ step7.clips = <<>>
    /\ step7.nosilence \in SourceContents
    /\ step7.illustrated = step7.nosilence
    /\ step7.success

====
